---- MODULE Spec2Model ----
(***************************************************************************)
(* A model of the Genius client of MusicStoryTeller                        *)
(* (src/src/services/genius_service.py) and of the Song record it builds   *)
(* (src/src/models/song.py).                                               *)
(*                                                                         *)
(* Texts are TLA+ strings, handled character by character with Len, \o     *)
(* and SubSeq, so that strip, split, the substring tests and the regular   *)
(* expression substitutions of the code are computed as the code computes  *)
(* them.  An optional value is a sequence of length at most one: None is   *)
(* <<>> and Some(v) is <<v>>.                                              *)
(***************************************************************************)
EXTENDS Integers, Sequences, FiniteSets, TLC

None == <<>>
Some(v) == <<v>>
IsNone(o) == o = <<>>
Val(o) == o[1]

(***************************************************************************)
(* Characters and strings                                                  *)
(***************************************************************************)
Ch(s, i) == SubSeq(s, i, i)
From(s, i) == SubSeq(s, i, Len(s))

\* str.strip() and the regular expression class \s: white space
IsSpace(c) == c \in {" ", "\t", "\n", "\r"}
\* the regular expression class [ \t]
IsBlank(c) == c \in {" ", "\t"}
\* the regular expression class \d
IsDigit(c) == c \in {"0", "1", "2", "3", "4", "5", "6", "7", "8", "9"}

UpperChars == "ABCDEFGHIJKLMNOPQRSTUVWXYZ"
LowerChars == "abcdefghijklmnopqrstuvwxyz"
\* the lower case letter of each upper case letter
LowerOf ==
    LET pairs == {<<Ch(UpperChars, i), Ch(LowerChars, i)>> : i \in 1..Len(UpperChars)}
    IN  [c \in {p[1] : p \in pairs} |-> (CHOOSE p \in pairs : p[1] = c)[2]]
UpperSet == DOMAIN LowerOf
LowerSet == {LowerOf[c] : c \in UpperSet}
IsUpper(c) == c \in UpperSet
IsLower(c) == c \in LowerSet
\* the regular expression class \w, the characters \b tells apart from the rest
IsWord(c) == IsUpper(c) \/ IsLower(c) \/ IsDigit(c) \/ c = "_"

LowerCh(c) == IF IsUpper(c) THEN LowerOf[c] ELSE c

RECURSIVE Lower(_)
\* str.lower(), and the folding of re.IGNORECASE
Lower(s) ==
    IF Len(s) = 0 THEN ""
    ELSE IF Len(s) = 1 THEN LowerCh(s)
    ELSE Lower(SubSeq(s, 1, Len(s) \div 2)) \o Lower(From(s, Len(s) \div 2 + 1))

\* p occurs in s at position i
StartsAt(s, p, i) ==
    /\ i >= 1
    /\ i + Len(p) - 1 <= Len(s)
    /\ SubSeq(s, i, i + Len(p) - 1) = p

\* `p in s`
Contains(s, p) == \E i \in 1..(Len(s) + 1) : StartsAt(s, p, i)

\* s.endswith(p)
EndsWith(s, p) == StartsAt(s, p, Len(s) - Len(p) + 1)

RECURSIVE LStrip(_)
LStrip(s) == IF Len(s) > 0 /\ IsSpace(Ch(s, 1)) THEN LStrip(From(s, 2)) ELSE s

RECURSIVE RStrip(_)
RStrip(s) ==
    IF Len(s) > 0 /\ IsSpace(Ch(s, Len(s))) THEN RStrip(SubSeq(s, 1, Len(s) - 1)) ELSE s

\* str.strip()
Strip(s) == RStrip(LStrip(s))

RECURSIVE Split(_, _)
\* s.split(sep) for a separator of one character: a sequence of strings
Split(s, sep) ==
    IF ~Contains(s, sep) THEN <<s>>
    ELSE LET i == CHOOSE k \in 1..Len(s) :
                      /\ Ch(s, k) = sep
                      /\ \A j \in 1..(k - 1) : Ch(s, j) # sep
         IN  <<SubSeq(s, 1, i - 1)>> \o Split(From(s, i + 1), sep)

RECURSIVE Join(_, _)
\* sep.join(parts)
Join(parts, sep) ==
    IF Len(parts) = 0 THEN ""
    ELSE IF Len(parts) = 1 THEN parts[1]
    ELSE parts[1] \o sep \o Join(Tail(parts), sep)

\* len(s.split()): the number of maximal runs of characters that are not white space
TokenCount(s) ==
    Cardinality({i \in 1..Len(s) :
                    /\ ~IsSpace(Ch(s, i))
                    /\ (i = 1 \/ IsSpace(Ch(s, i - 1)))})

(***************************************************************************)
(* _format_lyrics: the line filter (genius_service.py, lines 422-448)      *)
(***************************************************************************)
\* line 436: the words whose presence drops a line
MetadataWords ==
    {"Contributors", "Translations", "Nederlands", "Türkçe", "Español", "Read More"}

\* line 444: the markers that start the capture of lyrics
StructuralMarkers ==
    {"[Verse", "[Chorus", "[Bridge", "[Outro", "[Intro", "[Pre-", "[Post-"}

\* line 447: the words of the second branch of the filter
SkipWords == {"read more", "embed", "you might also like"}

\* line 440: the largest number of tokens of a title line
TitleMaxTokens == 3

\* a mutant of HasMetadataWord: the line is compared with the words
HasMetadataWordOnly(line) == line \in MetadataWords
HasMetadataWord(line) == \E w \in MetadataWords : Contains(line, w)
\* a mutant of HasMarker: any line starts the capture
HasMarkerAlways(line) == TRUE
HasMarker(line) == \E m \in StructuralMarkers : Contains(line, m)
\* a mutant of IsTitleRepeat: the count of tokens is off by one
IsTitleRepeatBelow(line) == EndsWith(line, " Lyrics") /\ TokenCount(line) < TitleMaxTokens
\* line 440: the repeated title, "<title> Lyrics"
IsTitleRepeat(line) == EndsWith(line, " Lyrics") /\ TokenCount(line) <= TitleMaxTokens

\* One pass of the loop body (lines 427-448) over the raw line, from the state
\* (lyrics_started, clean_lines) to the state after it.
FilterLine(raw, st) ==
    LET line == Strip(raw) IN
    IF line = ""
    THEN IF st.lyrics_started
         THEN [st EXCEPT !.clean_lines = Append(@, "")]
         ELSE st
    ELSE IF HasMetadataWord(line) THEN st
    ELSE IF IsTitleRepeat(line) THEN st
    ELSE IF HasMarker(line) \/ st.lyrics_started
         THEN [lyrics_started |-> TRUE, clean_lines |-> Append(st.clean_lines, line)]
    ELSE IF st.lyrics_started /\ line # ""
            /\ ~\E w \in SkipWords : Contains(Lower(line), w)
         THEN [st EXCEPT !.clean_lines = Append(@, line)]
    ELSE st

\* a mutant of FilterStart: the filter starts with the lyrics started
FilterStartCapturing == [lyrics_started |-> TRUE, clean_lines |-> <<>>]
\* lines 423-424: the state of the filter before the first line
FilterStart == [lyrics_started |-> FALSE, clean_lines |-> <<>>]

RECURSIVE FilterLines(_, _)
\* lines 426-448: the loop over the lines
FilterLines(lines, st) ==
    IF Len(lines) = 0 THEN st
    ELSE FilterLines(Tail(lines), FilterLine(Head(lines), st))

(***************************************************************************)
(* _format_lyrics: the clean-up of the text (lines 450-470)                *)
(***************************************************************************)
Max(S) == CHOOSE x \in S : \A y \in S : y <= x
Min(S) == CHOOSE x \in S : \A y \in S : x <= y

RECURSIVE Replace(_, _, _)
\* re.sub of a literal pattern p by r, leftmost matches that do not overlap
Replace(s, p, r) ==
    LET M == {i \in 1..Len(s) : StartsAt(s, p, i)} IN
    IF M = {} THEN s
    ELSE SubSeq(s, 1, Min(M) - 1) \o r \o Replace(From(s, Min(M) + Len(p)), p, r)

\* the length of the run of white space that starts s
RECURSIVE SpaceRun(_)
SpaceRun(s) == IF Len(s) > 0 /\ IsSpace(Ch(s, 1)) THEN 1 + SpaceRun(From(s, 2)) ELSE 0

\* the positions of the newlines among the first n characters of s
NewlinesIn(s, n) == {i \in 1..n : Ch(s, i) = "\n"}

\* The length of the match of \n\s*\n\s*\n+ at the start of s, 0 when there is
\* none: the match runs to the last newline of the run of white space, which
\* must hold three newlines or more.
NewlineMatch(s) ==
    IF Len(s) = 0 \/ Ch(s, 1) # "\n" THEN 0
    ELSE LET nl == NewlinesIn(s, SpaceRun(s))
         IN  IF Cardinality(nl) >= 3 THEN Max(nl) ELSE 0

\* a mutant of CollapseNewlines: two newlines are collapsed as well
CollapseNewlinesAll(s) == Replace(s, "\n\n", "\n")

RECURSIVE CollapseNewlines(_)
\* line 454: re.sub(r'\n\s*\n\s*\n+', '\n\n', text)
CollapseNewlines(s) ==
    LET M == {i \in 1..Len(s) : NewlineMatch(From(s, i)) > 0} IN
    IF M = {} THEN s
    ELSE LET i == Min(M)
         IN  SubSeq(s, 1, i - 1) \o "\n\n"
                 \o CollapseNewlines(From(s, i + NewlineMatch(From(s, i))))

RECURSIVE BlankRun(_)
BlankRun(s) == IF Len(s) > 0 /\ IsBlank(Ch(s, 1)) THEN 1 + BlankRun(From(s, 2)) ELSE 0

RECURSIVE CollapseBlanks(_)
\* line 455: re.sub(r'[ \t]+', ' ', text)
CollapseBlanks(s) ==
    LET M == {i \in 1..Len(s) : IsBlank(Ch(s, i))} IN
    IF M = {} THEN s
    ELSE LET i == Min(M)
         IN  SubSeq(s, 1, i - 1) \o " " \o CollapseBlanks(From(s, i + BlankRun(From(s, i))))

\* line 456: re.sub(r'\n ', '\n', text)
StripLeadingSpaces(s) == Replace(s, "\n ", "\n")
\* line 457: re.sub(r' \n', '\n', text)
StripTrailingSpaces(s) == Replace(s, " \n", "\n")

(***************************************************************************)
(* _format_lyrics: the artifacts (lines 460-468).  Each pattern is applied *)
(* with re.IGNORECASE | re.MULTILINE | re.DOTALL: the text is matched in   *)
(* lower case (low), $ stands before a newline or at the end, and . spans  *)
(* newlines.  ArtifactMatch(k, s, low) is the length of the match of the   *)
(* k-th pattern at the start of s, 0 when there is none.                   *)
(***************************************************************************)
RECURSIVE DigitRun(_)
DigitRun(s) == IF Len(s) > 0 /\ IsDigit(Ch(s, 1)) THEN 1 + DigitRun(From(s, 2)) ELSE 0

\* the positions from lo on at which p occurs in low
Occurrences(low, p, lo) == {j \in lo..Len(low) : StartsAt(low, p, j)}

\* r'\d+Embed$'
EmbedMatch(s, low) ==
    LET n == DigitRun(s) IN
    IF /\ n > 0
       /\ StartsAt(low, "embed", n + 1)
       /\ (n + 5 = Len(s) \/ Ch(s, n + 6) = "\n")
    THEN n + 5 ELSE 0

\* r'You might also like'
AlsoLikeMatch(s, low) ==
    IF StartsAt(low, "you might also like", 1) THEN Len("you might also like") ELSE 0

\* r'See .* LiveGet tickets as low as \$\d+': .* is greedy, the last promo wins
TicketsMatch(s, low) ==
    LET promo == " liveget tickets as low as $"
        J == {j \in Occurrences(low, promo, Len("see ") + 1) :
                 DigitRun(From(s, j + Len(promo))) > 0}
    IN  IF StartsAt(low, "see ", 1) /\ J # {}
        THEN Max(J) + Len(promo) - 1 + DigitRun(From(s, Max(J) + Len(promo)))
        ELSE 0

\* r'ContributorsTranslations.*?Lyrics': .*? is lazy, the first "Lyrics" wins
HeaderMatch(s, low) ==
    LET head == "contributorstranslations"
        J == Occurrences(low, "lyrics", Len(head) + 1)
    IN  IF StartsAt(low, head, 1) /\ J # {}
        THEN Min(J) + Len("lyrics") - 1
        ELSE 0

\* r'On ".*?" the .* track off.*?Read More'
BlurbMatch(s, low) ==
    LET the == "\" the "
        off == " track off"
        more == "read more"
        C(b) == Occurrences(low, more, b + Len(off))
        B(a) == {b \in Occurrences(low, off, a + Len(the)) : C(b) # {}}
        A == {a \in Occurrences(low, the, Len("on \"") + 1) : B(a) # {}}
    IN  IF StartsAt(low, "on \"", 1) /\ A # {}
        THEN Min(C(Max(B(Min(A))))) + Len(more) - 1
        ELSE 0

\* lines 460-466: the patterns, in the order of the list
NumArtifacts == 5

ArtifactMatch(k, s, low) ==
    CASE k = 1 -> EmbedMatch(s, low)
      [] k = 2 -> AlsoLikeMatch(s, low)
      [] k = 3 -> TicketsMatch(s, low)
      [] k = 4 -> HeaderMatch(s, low)
      [] k = 5 -> BlurbMatch(s, low)

RECURSIVE RemoveMatches(_, _, _)
\* re.sub(pattern, '', text): the matches are removed from left to right
RemoveMatches(k, s, low) ==
    LET M == {i \in 1..Len(s) : ArtifactMatch(k, From(s, i), From(low, i)) > 0} IN
    IF M = {} THEN s
    ELSE LET i == Min(M)
             n == ArtifactMatch(k, From(s, i), From(low, i))
         IN  SubSeq(s, 1, i - 1) \o RemoveMatches(k, From(s, i + n), From(low, i + n))

RECURSIVE RemoveArtifacts(_, _)
\* lines 467-468: the loop over the patterns, from the k-th on
RemoveArtifacts(k, s) ==
    IF k > NumArtifacts THEN s
    ELSE RemoveArtifacts(k + 1, RemoveMatches(k, s, Lower(s)))

\* lines 451-470: the clean-up of the lines the filter kept
CleanUp(clean_lines) ==
    LET joined == Join(clean_lines, "\n")
        a == CollapseNewlines(joined)
        b == CollapseBlanks(a)
        c == StripLeadingSpaces(b)
        d == StripTrailingSpaces(c)
    IN  Strip(RemoveArtifacts(1, d))

\* _format_lyrics (lines 396-470)
FormatLyrics(lyrics) == CleanUp(FilterLines(Split(lyrics, "\n"), FilterStart).clean_lines)

(***************************************************************************)
(* _extract_song_metadata (lines 131-154).  A payload is a record of the   *)
(* fields the client reads, each optional: title, artist (the name of      *)
(* primary_artist), album (the name of album), date                        *)
(* (release_date_for_display), tags (the names of the tags, each optional) *)
(* and url.                                                                *)
(***************************************************************************)
Digits == "0123456789"
DigitVal(c) == (CHOOSE d \in 1..Len(Digits) : Ch(Digits, d) = c) - 1

RECURSIVE ToInt(_)
\* int(s) for a string of digits
ToInt(s) ==
    IF Len(s) = 0 THEN 0
    ELSE 10 * ToInt(SubSeq(s, 1, Len(s) - 1)) + DigitVal(Ch(s, Len(s)))

\* \b before the character at position i of s: a word character on exactly one side
WordBoundary(s, i) ==
    LET before == i > 1 /\ i - 1 <= Len(s) /\ IsWord(Ch(s, i - 1))
        after == i >= 1 /\ i <= Len(s) /\ IsWord(Ch(s, i))
    IN  before # after

\* the length of a year, (19|20)\d{2}
YearLen == 4

\* a mutant of YearAt: the pattern without its word boundaries
YearAtAnywhere(s, i) ==
    /\ i + YearLen - 1 <= Len(s)
    /\ SubSeq(s, i, i + 1) \in {"19", "20"}
    /\ IsDigit(Ch(s, i + 2))
    /\ IsDigit(Ch(s, i + 3))

\* r'\b(19|20)\d{2}\b' matches s at position i
YearAt(s, i) ==
    /\ i + YearLen - 1 <= Len(s)
    /\ WordBoundary(s, i)
    /\ SubSeq(s, i, i + 1) \in {"19", "20"}
    /\ IsDigit(Ch(s, i + 2))
    /\ IsDigit(Ch(s, i + 3))
    /\ WordBoundary(s, i + YearLen)

\* lines 138-145: re.search finds the first match, int() reads it
ReleaseYear(date) ==
    IF IsNone(date) \/ Val(date) = "" THEN None
    ELSE LET M == {i \in 1..Len(Val(date)) : YearAt(Val(date), i)}
         IN  IF M = {} THEN None
             ELSE Some(ToInt(SubSeq(Val(date), Min(M), Min(M) + YearLen - 1)))

\* line 152: the number of tags that make the genre
GenreMaxTags == 3

\* line 150: the names of the tags that have one
TagNames(tags) == SelectSeq(tags, LAMBDA t : ~IsNone(t) /\ Val(t) # "")

RECURSIVE JoinNames(_, _)
JoinNames(names, sep) ==
    IF Len(names) = 0 THEN ""
    ELSE IF Len(names) = 1 THEN Val(names[1])
    ELSE Val(names[1]) \o sep \o JoinNames(Tail(names), sep)

\* a mutant of Genre: the first tags are taken before the names are read
GenreFirstTags(tags) ==
    LET genre_tags == TagNames(SubSeq(tags, 1, Min({Len(tags), GenreMaxTags}))) IN
    IF Len(genre_tags) = 0 THEN None ELSE Some(JoinNames(genre_tags, ", "))

\* lines 148-152
Genre(tags) ==
    LET genre_tags == TagNames(tags) IN
    IF Len(tags) = 0 \/ Len(genre_tags) = 0 THEN None
    ELSE Some(JoinNames(SubSeq(genre_tags, 1, Min({Len(genre_tags), GenreMaxTags})), ", "))

\* _extract_song_metadata
ExtractSongMetadata(song_details) ==
    [album |-> song_details.album,
     release_year |-> ReleaseYear(song_details.date),
     genre |-> Genre(song_details.tags)]

(***************************************************************************)
(* Song (src/src/models/song.py, lines 31-40): the validation of the       *)
(* fields on construction.  created_at, the time of construction, is left  *)
(* out of the record.                                                      *)
(***************************************************************************)
MinYear == 1900
MaxYear == 2030
MinNameLen == 1

\* Song(...) accepts the fields: title and artist are strings of at least
\* one character, release_year is None or within the bounds of the field
SongValid(f) ==
    /\ ~IsNone(f.title) /\ Len(Val(f.title)) >= MinNameLen
    /\ ~IsNone(f.artist) /\ Len(Val(f.artist)) >= MinNameLen
    /\ (IsNone(f.release_year)
        \/ (Val(f.release_year) >= MinYear /\ Val(f.release_year) <= MaxYear))

(***************************************************************************)
(* get_song_annotations: the records of a page (lines 373-384)             *)
(***************************************************************************)
\* the value of an optional field, or the default of .get(key, default)
GetOr(o, default) == IF IsNone(o) THEN default ELSE Val(o)

\* line 383: the name of the first author, "Unknown" when there is none
Author(authors) ==
    IF Len(authors) = 0 THEN "Unknown" ELSE GetOr(authors[1], "Unknown")

\* lines 376-384: the record made of an annotation entry of a referent
AnnotationRecord(referent, annotation) ==
    [id |-> annotation.id,
     body |-> GetOr(annotation.body, ""),
     fragment |-> GetOr(referent.fragment, ""),
     url |-> annotation.url,
     votes_total |-> GetOr(annotation.votes_total, 0),
     verified |-> GetOr(annotation.verified, FALSE),
     author |-> Author(annotation.authors)]

\* line 375: the records of one referent, in the order of its annotations
ReferentRecords(referent) ==
    [k \in 1..Len(referent.annotations) |->
        AnnotationRecord(referent, referent.annotations[k])]

\* a mutant of PageRecords: an annotation that was seen under an earlier
\* referent of the page is left out
PageRecordsDedup(referents) ==
    LET upto[i \in 0..Len(referents)] ==
            IF i = 0 THEN <<>>
            ELSE upto[i - 1] \o
                 SelectSeq(ReferentRecords(referents[i]),
                           LAMBDA a : \A j \in 1..Len(upto[i - 1]) : upto[i - 1][j].id # a.id)
    IN  upto[Len(referents)]

RECURSIVE PageRecords(_)
\* lines 374-384: the records of the referents of a page, in page order
PageRecords(referents) ==
    IF Len(referents) = 0 THEN <<>>
    ELSE ReferentRecords(Head(referents)) \o PageRecords(Tail(referents))

\* line 390: the last page when the response reports none
DefaultLastPage == 1

\* a mutant of PastLastPage: the last page never ends the loop
PastLastPageNever(next_page, last_page) == FALSE

\* line 390: the loop ends after the page when the next one is beyond the last
PastLastPage(next_page, last_page) == next_page > GetOr(last_page, DefaultLastPage)

(***************************************************************************)
(* _scrape_lyrics (lines 185-255).  A page is what the four selectors of   *)
(* lines 192-197 find in it, each a sequence of containers, a container    *)
(* being the text that get_text (line 242) gives after the removal of the  *)
(* unwanted elements.                                                      *)
(***************************************************************************)
\* a mutant of LyricsContainers: the containers of the four selectors together
LyricsContainersMerged(html) == html.attr \o html.cls \o html.generic \o html.byid

\* lines 192-197: the containers of the first selector that finds any
LyricsContainers(html) ==
    IF Len(html.attr) > 0 THEN html.attr
    ELSE IF Len(html.cls) > 0 THEN html.cls
    ELSE IF Len(html.generic) > 0 THEN html.generic
    ELSE html.byid

\* lines 204-246: the texts of the containers that are not empty
LyricsParts(containers) == SelectSeq(containers, LAMBDA text : Strip(text) # "")

\* lines 189-255: the lyrics of a page that was fetched
ScrapePage(html) ==
    LET lyrics_containers == LyricsContainers(html)
        lyrics_parts == LyricsParts(lyrics_containers)
    IN  IF Len(lyrics_containers) = 0 THEN None
        ELSE IF Len(lyrics_parts) = 0 THEN None
        ELSE Some(FormatLyrics(Join(lyrics_parts, "\n")))

(***************************************************************************)
(* get_song_lyrics_with_annotations: the Song (lines 510-527)              *)
(***************************************************************************)
\* a mutant of SongAnnotations: the records without a body are kept
SongAnnotationsAll(annotations) ==
    [k \in 1..Len(annotations) |-> annotations[k].fragment \o ": " \o annotations[k].body]

\* line 523: the annotations of the song, the records that have a body
RECURSIVE SongAnnotations(_)
SongAnnotations(annotations) ==
    IF Len(annotations) = 0 THEN <<>>
    ELSE LET ann == Head(annotations)
         IN  (IF ann.body # "" THEN <<ann.fragment \o ": " \o ann.body>> ELSE <<>>)
                 \o SongAnnotations(Tail(annotations))

\* lines 514-524: the fields given to Song
SongFields(id, details, meta, annotations, url, text) ==
    [id |-> id,
     title |-> Some(GetOr(details.title, "")),
     artist |-> Some(GetOr(details.artist, "")),
     album |-> meta.album,
     genre |-> meta.genre,
     release_year |-> meta.release_year,
     lyrics |-> text,
     lyrics_url |-> url,
     annotations |-> SongAnnotations(annotations)]

\* lines 514-527: the Song, or the error its validation raises
MakeSong(fields) ==
    IF SongValid(fields) THEN [kind |-> "song", song |-> fields]
    ELSE [kind |-> "raised", error |-> "ValidationError"]

(***************************************************************************)
(* LangChainService (src/src/services/langchain_service.py): analyze_lyrics *)
(* and generate_story_from_song.  A call of a chain is the record of its   *)
(* name and of the input given to invoke.                                  *)
(***************************************************************************)
\* line 145: the number of characters of the lyrics given to the summary chain
LyricsLimit == 1500

\* line 115
NoLyricsSummary == "No lyrical content available for analysis."

\* line 113: not lyrics or len(lyrics.strip()) == 0
NoLyrics(lyrics) == IsNone(lyrics) \/ Strip(Val(lyrics)) = ""

\* a mutant of TruncatedLyrics: the lyrics are given whole
TruncatedLyricsWhole(lyrics) == lyrics

\* line 145: lyrics[:1500]
TruncatedLyrics(lyrics) == SubSeq(lyrics, 1, Min({Len(lyrics), LyricsLimit}))

\* line 148: the call of the summary chain
SummaryCall(lyrics) == [chain |-> "summary", input |-> [lyrics |-> TruncatedLyrics(lyrics)]]

\* lines 149 and 158: the summary, the content of the response stripped, or
\* the message made of the error
Summary(answer) ==
    IF answer.ok THEN Strip(answer.text) ELSE "Unable to analyze lyrics: " \o answer.error

\* line 245: the annotations of the song, one to a line
AnnotationsText(annotations) ==
    IF Len(annotations) = 0 THEN "No expert annotations available"
    ELSE Join([k \in 1..Len(annotations) |-> "- " \o annotations[k]], "\n")

\* `value or default` for an optional string
StrOr(o, default) == IF IsNone(o) \/ Val(o) = "" THEN default ELSE Val(o)

\* lines 254-262: the call of the story chain
StoryCall(song, summary) ==
    [chain |-> "story",
     input |-> [title |-> Val(song.title),
                artist |-> Val(song.artist),
                album |-> StrOr(song.album, "Unknown Album"),
                genre |-> StrOr(song.genre, "Unknown Genre"),
                release_year |-> IF IsNone(song.release_year) THEN "Unknown Year"
                                 ELSE song.release_year,
                annotations |-> AnnotationsText(song.annotations),
                lyrics_summary |-> summary]]

\* lines 265-273: the story, the content of the response stripped, or the
\* exception raised for a failure of the chain
StoryOutcome(answer) ==
    IF answer.ok THEN [kind |-> "story", text |-> Strip(answer.text)]
    ELSE [kind |-> "raised", error |-> "Exception"]

(***************************************************************************)
(* The bounds of the model and the inputs drawn within them                *)
(***************************************************************************)
\* the largest number of referent pages that the API holds for a song
MaxPage == 2

\* the song identifiers given to the client
SongIds == {7, 8}

\* annotation entries of the API: one with every field, one with none but its id
EntryFull ==
    [id |-> 1, body |-> Some("b1"), url |-> Some("u1"), votes_total |-> Some(5),
     verified |-> Some(TRUE), authors |-> <<Some("ann")>>]
EntryBare ==
    [id |-> 2, body |-> None, url |-> None, votes_total |-> None,
     verified |-> None, authors |-> <<>>]

\* referents of the API: EntryFull stands under two of them, one holds no entry
RefOne == [fragment |-> Some("f1"), annotations |-> <<EntryFull>>]
RefTwo == [fragment |-> Some("f2"), annotations |-> <<EntryBare, EntryFull>>]
RefNone == [fragment |-> None, annotations |-> <<>>]

\* the pages of referents that the API may hold, none of them empty
RefPages == {<<RefOne, RefTwo>>, <<RefNone, RefTwo>>}

\* the referent pages of a song: page k is pages[k], and every later page is empty
ApiPages == UNION {[1..n -> RefPages] : n \in 0..MaxPage}

\* meta.last_page of a response: not reported, or a count
LastPages == {None} \cup {Some(n) : n \in 1..(MaxPage + 1)}

\* the payloads of /songs/{id}
PayloadGood ==
    [title |-> Some("Yesterday"), artist |-> Some("The Beatles"), album |-> Some("Help!"),
     date |-> Some("August 6, 1965"), url |-> Some("https://genius.com/y"),
     tags |-> <<Some("Pop"), None, Some("Rock"), Some("UK"), Some("Folk")>>]
Payloads ==
    {PayloadGood,
     [PayloadGood EXCEPT !.title = None],
     [PayloadGood EXCEPT !.artist = Some(""), !.tags = <<>>],
     [PayloadGood EXCEPT !.date = Some("2031"), !.album = None],
     [PayloadGood EXCEPT !.url = None, !.date = None],
     [PayloadGood EXCEPT !.url = Some(""), !.date = Some("12019")],
     [PayloadGood EXCEPT !.url = None, !.title = Some("")]}

\* the lyrics pages of the site
NoContainers == [attr |-> <<>>, cls |-> <<>>, generic |-> <<>>, byid |-> <<>>]
HtmlPages ==
    {NoContainers,
     [NoContainers EXCEPT !.attr = <<"", " ">>],
     [NoContainers EXCEPT !.attr = <<"">>, !.cls = <<"[Bridge]\nla">>],
     [NoContainers EXCEPT !.attr = <<"[Verse 1]\nla la\nYo Lyrics">>],
     [NoContainers EXCEPT !.attr = <<"la la">>],
     [NoContainers EXCEPT !.cls = <<"Read More", "[Chorus]\nla">>,
                          !.generic = <<"[Intro]\nx">>],
     [NoContainers EXCEPT !.byid = <<"[Verse 1]\nla", "", "[Outro]\nla">>]}

\* the largest number of hits that a response to /search carries
MaxHits == 3

\* the results of the hits of /search: with an id and a title, without an id,
\* with a title that is null
HitAt(i) == [id |-> Some(IF i % 2 = 1 THEN 7 ELSE 8), title |-> Some("Yesterday")]
HitNoId == [id |-> None, title |-> Some("Yesterday")]
HitNoTitle == [id |-> Some(7), title |-> None]
HitLists == {[i \in 1..n |-> HitAt(i)] : n \in 0..MaxHits} \cup {<<HitNoId>>, <<HitNoTitle>>}

\* the limit given to search_song: none, or a number
Limits == {None, Some(1), Some(2)}

\* src/src/helpers/config.py, line 22
GENIUS_MAX_SEARCH_RESULTS == 10

\* line 277: limit = limit or self.settings.GENIUS_MAX_SEARCH_RESULTS
PerPage(lim) == IF IsNone(lim) \/ Val(lim) = 0 THEN GENIUS_MAX_SEARCH_RESULTS ELSE Val(lim)

\* the answers of a chain: a response, or a failure of the call
LlmAnswers == {[ok |-> TRUE, text |-> " A tale of loss. \n"], [ok |-> FALSE, error |-> "timeout"]}

RECURSIVE Repeat(_, _)
\* n copies of s
Repeat(s, n) ==
    IF n = 0 THEN ""
    ELSE IF n % 2 = 0 THEN LET half == Repeat(s, n \div 2) IN half \o half
    ELSE s \o Repeat(s, n - 1)

\* lyrics of n characters, n at least the length of the marker line
LongLyrics(n) == SubSeq("[Verse 1]\n" \o Repeat("la la la\n", n), 1, n)

\* the lyrics of the songs given to generate_story_from_song: none, empty,
\* blank, short, and lyrics around LyricsLimit
LyricsInputs ==
    {None, Some(""), Some(" \n "), Some("[Verse 1]\nla"),
     Some(LongLyrics(LyricsLimit - 1)), Some(LongLyrics(LyricsLimit)),
     Some(LongLyrics(LyricsLimit + 1)), Some(LongLyrics(2 * LyricsLimit))}

\* the largest number of annotations of a song given to generate_story_from_song
MaxAnnotations == 2

\* the annotations of these songs: a short one and a long one
AnnotationTexts == {"f1: b1", "f2: " \o Repeat("b", 1000)}
AnnotationInputs == UNION {[1..n -> AnnotationTexts] : n \in 0..MaxAnnotations}

\* the songs given to generate_story_from_song
StorySongs ==
    {[id |-> 7, title |-> Some("Yesterday"), artist |-> Some("The Beatles"),
      album |-> Some("Help!"), genre |-> None, release_year |-> Some(1965),
      lyrics |-> text, lyrics_url |-> Some("https://genius.com/y"), annotations |-> list] :
        text \in LyricsInputs, list \in AnnotationInputs}

(***************************************************************************)
(* The state of the client                                                 *)
(***************************************************************************)
VARIABLES
    api_pages,        \* the referent pages the API holds for the song
    op,               \* the operation called: "none", "song", "annotations", "search"
    pc,               \* the call it waits for: "idle", "search", "details", "referents",
                      \* "lyrics", "done"
    net,              \* _make_request: "idle", "sleeping" (line 65), "inflight" (line 68)
    cur,              \* the request being made
    reqs,             \* the requests sent, in order
    resps,            \* the answers to the /referents requests, in order
    answers,          \* every request that was answered and whether it succeeded, in order
    limit,            \* search_song: per_page, 0 before the call
    song_id,
    song_details,     \* get_song_details: None or the payload
    metadata,
    all_annotations,
    page,
    lyrics_url,
    html_content,     \* _scrape_lyrics: None or the page that was fetched
    lyrics,
    result,           \* what the operation returned, or the error it raised
    \* _format_lyrics
    f_pc,             \* "idle", "split", "loop", "done"
    f_text,           \* the text given
    f_lines,          \* the lines that the loop has still to read
    f_filter,         \* lyrics_started and clean_lines
    cleaned_lyrics,   \* the text returned
    \* _extract_song_metadata
    m_pc,             \* "idle", "call", "done"
    m_details,        \* the payload given
    m_metadata,       \* the metadata returned
    \* the routes of the API
    route,            \* the endpoint called: "none", "search", "details", "generate"
    status,           \* the status code answered, 0 before the answer
    \* generate_story_from_song
    story_pc,         \* the chain it waits for: "idle", "summary", "story", "done"
    story_song,       \* None or the song given
    llm_calls,        \* the calls of the chains, in order
    lyrics_summary,   \* what analyze_lyrics returned, "" before
    story_result      \* the story returned, or the exception raised

clientVars == <<api_pages, op, pc, net, cur, reqs, resps, answers, limit, song_id,
                song_details, metadata, all_annotations, page, lyrics_url, html_content,
                lyrics, result>>
formatVars == <<f_pc, f_text, f_lines, f_filter, cleaned_lyrics>>
metaVars == <<m_pc, m_details, m_metadata>>
routeVars == <<route, status>>
storyVars == <<story_pc, story_song, llm_calls, lyrics_summary, story_result>>
vars == <<clientVars, formatVars, metaVars, routeVars, storyVars>>

NoRequest == [kind |-> "none", page |-> 0]
Pending == [kind |-> "pending"]

\* a mutant of NotFound: the absent song is raised as an error
NotFoundRaised == [kind |-> "raised", error |-> "NotFound"]
\* line 504: return None
NotFound == [kind |-> "none"]

\* no operation of the client is running
ClientIdle ==
    /\ api_pages = <<>>
    /\ op = "none"
    /\ pc = "idle"
    /\ net = "idle"
    /\ cur = NoRequest
    /\ reqs = <<>>
    /\ resps = <<>>
    /\ answers = <<>>
    /\ limit = 0
    /\ song_id = 0
    /\ song_details = None
    /\ metadata = None
    /\ all_annotations = <<>>
    /\ page = 0
    /\ lyrics_url = ""
    /\ html_content = None
    /\ lyrics = None
    /\ result = Pending

FormatIdle ==
    /\ f_pc = "idle"
    /\ f_text = ""
    /\ f_lines = <<>>
    /\ f_filter = FilterStart
    /\ cleaned_lyrics = None

MetaIdle ==
    /\ m_pc = "idle"
    /\ m_details = None
    /\ m_metadata = None

\* no endpoint was called
RouteIdle ==
    /\ route = "none"
    /\ status = 0

\* generate_story_from_song was not called
StoryIdle ==
    /\ story_pc = "idle"
    /\ story_song = None
    /\ llm_calls = <<>>
    /\ lyrics_summary = ""
    /\ story_result = Pending

Init ==
    /\ FormatIdle
    /\ MetaIdle
    /\ RouteIdle
    /\ StoryIdle
    /\ api_pages \in ApiPages
    /\ op = "none"
    /\ pc = "idle"
    /\ net = "idle"
    /\ cur = NoRequest
    /\ reqs = <<>>
    /\ resps = <<>>
    /\ answers = <<>>
    /\ limit = 0
    /\ song_id = 0
    /\ song_details = None
    /\ metadata = None
    /\ all_annotations = <<>>
    /\ page = 0
    /\ lyrics_url = ""
    /\ html_content = None
    /\ lyrics = None
    /\ result = Pending

(***************************************************************************)
(* The operations of the client, cut at the requests they make             *)
(***************************************************************************)
\* a mutant of StartRequest: the requests of the annotations and the request
\* of the lyrics page change places
StartRequestSwapped(kind, n) ==
    /\ net' = "sleeping"
    /\ cur' = [kind |-> IF kind = "referents" THEN "lyrics"
                        ELSE IF kind = "lyrics" THEN "referents" ELSE kind,
               page |-> n]

\* a mutant of StartRequest: every request of a page asks for page 1
StartRequestFirstPage(kind, n) ==
    /\ net' = "sleeping"
    /\ cur' = [kind |-> kind, page |-> IF n > 1 THEN 1 ELSE n]

\* a mutant of StartRequest: the request is sent without the delay
StartRequestNoDelay(kind, n) ==
    /\ net' = "inflight"
    /\ cur' = [kind |-> kind, page |-> n]

\* _make_request (lines 64-65) and _make_web_request (line 98): a request
\* starts with the delay
StartRequest(kind, n) ==
    /\ net' = "sleeping"
    /\ cur' = [kind |-> kind, page |-> n]

\* the operation returns r
Return(r) ==
    /\ result' = r
    /\ pc' = "done"
    /\ net' = "idle"
    /\ cur' = NoRequest

\* the request in flight was answered, with success or not
Answered(ok) == answers' = Append(answers, [req |-> cur, ok |-> ok])

\* get_song_lyrics_with_annotations, lines 499-502: the call, up to the
\* request of get_song_details (line 309)
CallSong(id) ==
    /\ op' = "song"
    /\ song_id' = id
    /\ pc' = "details"
    /\ result' = Pending
    /\ StartRequest("song", 0)
    /\ UNCHANGED <<api_pages, reqs, resps, answers, limit, song_details, metadata,
                   all_annotations, page, lyrics_url, html_content, lyrics>>
    /\ UNCHANGED <<formatVars, metaVars, storyVars>>

\* get_song_lyrics_with_annotations, called on its own
GetSongLyricsWithAnnotations(id) ==
    /\ pc = "idle"
    /\ CallSong(id)
    /\ UNCHANGED routeVars

\* search_song, lines 277-280: the call, up to the request of /search
CallSearch(lim) ==
    /\ op' = "search"
    /\ limit' = PerPage(lim)
    /\ pc' = "search"
    /\ result' = Pending
    /\ StartRequest("search", 0)
    /\ UNCHANGED <<api_pages, reqs, resps, answers, song_id, song_details, metadata,
                   all_annotations, page, lyrics_url, html_content, lyrics>>
    /\ UNCHANGED <<formatVars, metaVars, storyVars>>

\* search_song, called on its own
SearchSong(lim) ==
    /\ pc = "idle"
    /\ CallSearch(lim)
    /\ UNCHANGED routeVars

\* search_song, lines 280-287: the answer to /search.  The request failed and
\* the list is empty, or the list holds the result of every hit of the
\* response.
SearchResponse ==
    /\ pc = "search"
    /\ net = "inflight"
    /\ \E answer \in {None} \cup {Some(h) : h \in HitLists} :
          /\ Answered(~IsNone(answer))
          /\ Return([kind |-> "songs", list |-> IF IsNone(answer) THEN <<>> ELSE Val(answer)])
    /\ UNCHANGED <<api_pages, op, reqs, resps, limit, song_id, song_details, metadata,
                   all_annotations, page, lyrics_url, html_content, lyrics>>
    /\ UNCHANGED <<formatVars, metaVars, routeVars, storyVars>>

\* get_song_annotations, lines 350-363: the call, up to the request of page 1
GetSongAnnotations(id) ==
    /\ pc = "idle"
    /\ op' = "annotations"
    /\ song_id' = id
    /\ pc' = "referents"
    /\ all_annotations' = <<>>
    /\ page' = 1
    /\ StartRequest("referents", 1)
    /\ UNCHANGED <<api_pages, reqs, resps, answers, limit, song_details, metadata,
                   lyrics_url, html_content, lyrics, result>>
    /\ UNCHANGED <<formatVars, metaVars, routeVars, storyVars>>

\* lines 65-68 and 98-99: the delay is over and the request is sent
Send ==
    /\ net = "sleeping"
    /\ net' = "inflight"
    /\ reqs' = Append(reqs, cur)
    /\ UNCHANGED <<api_pages, op, pc, cur, resps, answers, limit, song_id, song_details,
                   metadata, all_annotations, page, lyrics_url, html_content, lyrics,
                   result>>
    /\ UNCHANGED <<formatVars, metaVars, routeVars, storyVars>>

\* lines 513-527: the Song is built and returned, or its validation raises
FinishSong(details, meta, annotations, url, text) ==
    Return(MakeSong(SongFields(song_id, details, meta, annotations, Some(url), text)))

\* a mutant of AfterAnnotations: the records collected are not returned
AfterAnnotationsNone(details, meta, annotations) ==
    IF op = "annotations"
    THEN /\ Return([kind |-> "annotations", list |-> <<>>])
         /\ UNCHANGED <<lyrics_url, lyrics>>
    ELSE LET url == GetOr(Val(details).url, "") IN
         /\ lyrics_url' = url
         /\ IF url # ""
            THEN /\ pc' = "lyrics"
                 /\ StartRequest("lyrics", 0)
                 /\ UNCHANGED <<lyrics, result>>
            ELSE /\ lyrics' = None
                 /\ FinishSong(Val(details), Val(meta), <<>>, url, None)

\* What follows the return of get_song_annotations with the list annotations:
\* its caller has the list (line 394), or get_song_lyrics_with_annotations goes
\* on (lines 507-511) to the request of the lyrics page, or to the Song when
\* the payload has no url.
AfterAnnotations(details, meta, annotations) ==
    IF op = "annotations"
    THEN /\ Return([kind |-> "annotations", list |-> annotations])
         /\ UNCHANGED <<lyrics_url, lyrics>>
    ELSE LET url == GetOr(Val(details).url, "") IN
         /\ lyrics_url' = url
         /\ IF url # ""
            THEN /\ pc' = "lyrics"
                 /\ StartRequest("lyrics", 0)
                 /\ UNCHANGED <<lyrics, result>>
            ELSE /\ lyrics' = None
                 /\ FinishSong(Val(details), Val(meta), annotations, url, None)

\* get_song_details, lines 309-316, and lines 503-507 of its caller: the
\* answer to /songs/{id}.  The request failed (_make_request gives None), or
\* the response holds no song, or it holds a payload.
SongDetailsResponse ==
    /\ pc = "details"
    /\ net = "inflight"
    /\ \E answer \in {[ok |-> FALSE, song |-> None], [ok |-> TRUE, song |-> None]}
                         \cup {[ok |-> TRUE, song |-> Some(p)] : p \in Payloads} :
          /\ Answered(answer.ok)
          /\ song_details' = answer.song
          /\ IF IsNone(answer.song)
             THEN /\ Return(NotFound)
                  /\ UNCHANGED <<metadata, all_annotations, page, lyrics_url, lyrics>>
             ELSE /\ metadata' = Some(ExtractSongMetadata(Val(answer.song)))
                  /\ all_annotations' = <<>>
                  /\ page' = 1
                  /\ pc' = "referents"
                  /\ StartRequest("referents", 1)
                  /\ UNCHANGED <<lyrics_url, lyrics, result>>
    /\ UNCHANGED <<api_pages, op, reqs, resps, limit, song_id, html_content>>
    /\ UNCHANGED <<formatVars, metaVars, routeVars, storyVars>>

\* the referents the API holds on page n
ApiReferents(n) == IF n <= Len(api_pages) THEN api_pages[n] ELSE <<>>

\* get_song_annotations, lines 363-394: the answer to the request of a page.
\* The request failed, or the response holds the referents of the page and
\* reports a last page, or none.
ReferentsResponse ==
    /\ pc = "referents"
    /\ net = "inflight"
    /\ \E ok \in BOOLEAN, last_page \in LastPages :
          LET referents == ApiReferents(page)
              collected == all_annotations \o PageRecords(referents)
          IN  /\ Answered(ok)
              /\ IF ~ok
                 THEN /\ last_page = None
                      /\ resps' = Append(resps, [ok |-> FALSE, count |-> 0, last_page |-> None])
                      /\ UNCHANGED <<all_annotations, page>>
                      /\ AfterAnnotations(song_details, metadata, all_annotations)
                 ELSE /\ resps' = Append(resps, [ok |-> TRUE, count |-> Len(referents),
                                                 last_page |-> last_page])
                      /\ IF Len(referents) = 0
                         THEN /\ UNCHANGED <<all_annotations, page>>
                              /\ AfterAnnotations(song_details, metadata, all_annotations)
                         ELSE /\ all_annotations' = collected
                              /\ page' = page + 1
                              /\ IF PastLastPage(page + 1, last_page)
                                 THEN AfterAnnotations(song_details, metadata, collected)
                                 ELSE /\ StartRequest("referents", page + 1)
                                      /\ UNCHANGED <<pc, lyrics_url, lyrics, result>>
    /\ UNCHANGED <<api_pages, op, reqs, limit, song_id, song_details, metadata,
                   html_content>>
    /\ UNCHANGED <<formatVars, metaVars, routeVars, storyVars>>

\* _scrape_lyrics, lines 185-255, and lines 511-527 of its caller: the answer
\* to the request of the lyrics page.  The request failed or the body is
\* empty (line 186), or a page came.
LyricsResponse ==
    /\ pc = "lyrics"
    /\ net = "inflight"
    /\ \E answer \in {None} \cup {Some(h) : h \in HtmlPages} :
          /\ Answered(~IsNone(answer))
          /\ html_content' = answer
          /\ lyrics' = IF IsNone(answer) THEN None ELSE ScrapePage(Val(answer))
          /\ FinishSong(Val(song_details), Val(metadata), all_annotations, lyrics_url,
                        lyrics')
    /\ UNCHANGED <<api_pages, op, reqs, resps, limit, song_id, song_details, metadata,
                   all_annotations, page, lyrics_url>>
    /\ UNCHANGED <<formatVars, metaVars, routeVars, storyVars>>

Next ==
    \/ \E id \in SongIds : GetSongLyricsWithAnnotations(id)
    \/ \E id \in SongIds : GetSongAnnotations(id)
    \/ \E lim \in Limits : SearchSong(lim)
    \/ Send
    \/ SearchResponse
    \/ SongDetailsResponse
    \/ ReferentsResponse
    \/ LyricsResponse

Spec == Init /\ [][Next]_vars

\* Every request is answered or fails within GENIUS_TIMEOUT (lines 68 and 101)
\* and the delay of lines 65 and 98 ends, so a step that can be taken is taken.
SpecLive == Spec /\ WF_vars(Next)

(***************************************************************************)
(* generate_story_from_song, cut at the calls of the chains                *)
(***************************************************************************)
\* lines 235-262, with analyze_lyrics, lines 111-148: the call, up to the
\* first call of a chain.  Without lyrics analyze_lyrics returns at line 115
\* and the story chain is called; else the summary chain is called.
CallStory(song) ==
    /\ story_song' = Some(song)
    /\ story_result' = Pending
    /\ IF NoLyrics(song.lyrics)
       THEN /\ lyrics_summary' = NoLyricsSummary
            /\ story_pc' = "story"
            /\ llm_calls' = Append(llm_calls, StoryCall(song, NoLyricsSummary))
       ELSE /\ lyrics_summary' = ""
            /\ story_pc' = "summary"
            /\ llm_calls' = Append(llm_calls, SummaryCall(Val(song.lyrics)))

\* generate_story_from_song, called on its own
GenerateStoryFromSong(song) ==
    /\ story_pc = "idle"
    /\ route = "none"
    /\ pc = "idle"
    /\ CallStory(song)
    /\ UNCHANGED <<clientVars, formatVars, metaVars, routeVars>>

\* analyze_lyrics, lines 148-158, and lines 240-262 of its caller: the summary
\* chain has answered or failed, the summary is returned and the story chain
\* is called
SummaryResponse ==
    /\ story_pc = "summary"
    /\ \E answer \in LlmAnswers :
          /\ lyrics_summary' = Summary(answer)
          /\ llm_calls' = Append(llm_calls, StoryCall(Val(story_song), Summary(answer)))
    /\ story_pc' = "story"
    /\ UNCHANGED <<story_song, story_result>>
    /\ UNCHANGED <<clientVars, formatVars, metaVars, routeVars>>

\* lines 264-273: the story chain has answered or failed
StoryResponse ==
    /\ story_pc = "story"
    /\ \E answer \in LlmAnswers : story_result' = StoryOutcome(answer)
    /\ story_pc' = "done"
    /\ UNCHANGED <<story_song, llm_calls, lyrics_summary>>
    /\ UNCHANGED <<clientVars, formatVars, metaVars, routeVars>>

NextStory ==
    \/ \E song \in StorySongs : GenerateStoryFromSong(song)
    \/ SummaryResponse
    \/ StoryResponse

\* no operation was called yet
InitStory ==
    /\ ClientIdle
    /\ FormatIdle
    /\ MetaIdle
    /\ RouteIdle
    /\ StoryIdle

SpecStory == InitStory /\ [][NextStory]_vars

(***************************************************************************)
(* The routes of the API: an endpoint calls the client and answers with a  *)
(* status code                                                             *)
(***************************************************************************)
\* song_routes.py, lines 75-81: POST /search, up to the request of search_song
SearchSongs(lim) ==
    /\ route = "none"
    /\ pc = "idle"
    /\ route' = "search"
    /\ UNCHANGED status
    /\ CallSearch(lim)

\* song_routes.py, lines 83-113: 404 for an empty list; the response is built
\* of the results, and SongInfo (song_schemas.py, line 21) takes no null title
SearchStatus(list) ==
    IF Len(list) = 0 THEN 404
    ELSE IF \E i \in 1..Len(list) : IsNone(list[i].title) THEN 500
    ELSE 200

\* song_routes.py, lines 83-113: the answer of POST /search
SearchSongsRespond ==
    /\ route = "search"
    /\ pc = "done"
    /\ status = 0
    /\ status' = SearchStatus(result.list)
    /\ UNCHANGED <<route, clientVars, formatVars, metaVars, storyVars>>

\* song_routes.py, lines 153-156: GET /{song_id}, up to the first request of
\* get_song_lyrics_with_annotations
GetSongDetailsRoute(id) ==
    /\ route = "none"
    /\ pc = "idle"
    /\ route' = "details"
    /\ UNCHANGED status
    /\ CallSong(id)

\* song_routes.py, lines 158-176: 404 for no song, 500 for an exception
DetailsStatus(r) ==
    IF r.kind = "raised" THEN 500
    ELSE IF r.kind = "none" THEN 404
    ELSE 200

\* song_routes.py, lines 158-176: the answer of GET /{song_id}
GetSongDetailsRespond ==
    /\ route = "details"
    /\ pc = "done"
    /\ status = 0
    /\ status' = DetailsStatus(result)
    /\ UNCHANGED <<route, clientVars, formatVars, metaVars, storyVars>>

\* story_routes.py, lines 80-87, and langchain_service.py, lines 176-181:
\* POST /generate, up to the request of search_song, called with no limit
GenerateStory ==
    /\ route = "none"
    /\ pc = "idle"
    /\ route' = "generate"
    /\ UNCHANGED status
    /\ CallSearch(None)

\* a mutant of Reraised: what is raised is swallowed and a Story is returned
ReraisedNone(error) == "ok"

\* langchain_service.py, lines 220-222: whatever is raised within
\* generate_story_from_song_name is raised again as an Exception
Reraised(error) == "Exception"

\* story_routes.py, lines 89-102: 200 for a story, 404 for a ValueError, 500
\* for any other exception
StoryStatus(outcome) ==
    IF outcome = "ok" THEN 200
    ELSE IF outcome = "ValueError" THEN 404
    ELSE 500

\* langchain_service.py, lines 183-199: search_song has returned.  No result,
\* or a first result without an id, raises ValueError; else the song of the
\* first result is fetched.
GenerateAfterSearch ==
    /\ route = "generate"
    /\ op = "search"
    /\ pc = "done"
    /\ status = 0
    /\ IF Len(result.list) = 0 \/ IsNone(result.list[1].id)
       THEN /\ status' = StoryStatus(Reraised("ValueError"))
            /\ UNCHANGED <<route, clientVars, formatVars, metaVars, storyVars>>
       ELSE /\ CallSong(Val(result.list[1].id))
            /\ UNCHANGED routeVars

\* langchain_service.py, lines 199-209: get_song_lyrics_with_annotations has
\* returned, or raised.  No song raises ValueError; else
\* generate_story_from_song is called with the song.
GenerateAfterSong ==
    /\ route = "generate"
    /\ op = "song"
    /\ pc = "done"
    /\ status = 0
    /\ story_pc = "idle"
    /\ IF result.kind = "song"
       THEN /\ CallStory(result.song)
            /\ UNCHANGED <<routeVars, clientVars, formatVars, metaVars>>
       ELSE /\ status' = StoryStatus(IF result.kind = "none" THEN Reraised("ValueError")
                                     ELSE Reraised(result.error))
            /\ UNCHANGED <<route, clientVars, formatVars, metaVars, storyVars>>

\* langchain_service.py, lines 209-222, and story_routes.py, lines 89-102:
\* generate_story_from_song has returned the story, of which the Story is
\* made, or raised
GenerateRespond ==
    /\ route = "generate"
    /\ story_pc = "done"
    /\ status = 0
    /\ status' = StoryStatus(IF story_result.kind = "story" THEN "ok"
                             ELSE Reraised(story_result.error))
    /\ UNCHANGED <<route, clientVars, formatVars, metaVars, storyVars>>

NextRoutes ==
    \/ \E lim \in Limits : SearchSongs(lim)
    \/ \E id \in SongIds : GetSongDetailsRoute(id)
    \/ GenerateStory
    \/ Send
    \/ SearchResponse
    \/ SongDetailsResponse
    \/ ReferentsResponse
    \/ LyricsResponse
    \/ SearchSongsRespond
    \/ GetSongDetailsRespond
    \/ GenerateAfterSearch
    \/ GenerateAfterSong
    \/ SummaryResponse
    \/ StoryResponse
    \/ GenerateRespond

SpecRoutes == Init /\ [][NextRoutes]_vars

(***************************************************************************)
(* _format_lyrics, run on its own, one line of its loop at a time          *)
(***************************************************************************)
\* the largest number of lines of a text given to _format_lyrics
MaxLines == 3

\* the lines of the texts: a blank line, a marker, a lyric line, repeated
\* titles of two and of three tokens and a line of four that ends alike, a
\* line of metadata, a line that starts with a space, a line with a tab, an
\* artifact, a line of metadata that holds a marker, a language name that
\* line 436 does not list
TextLines ==
    {"", "[Verse 1]", "Some lyric line", "Yesterday Lyrics", "Hey Jude Lyrics",
     "Let It Be Lyrics", "Read More", " la", "la\tla", "You might also like",
     "[Intro] Read More", "Deutsch"}

\* line 229: the language names that _scrape_lyrics removes from a container,
\* those of them that are written in Latin-1 (the strings of the model hold
\* no other character)
LanguageNames ==
    {"Nederlands", "Türkçe", "Español", "srpski", "Português", "Italiano", "Magyar",
     "Deutsch", "Français", "hrvatski", "Polski", "Català"}

LyricLines == {"Some lyric line", "la la"}

\* a language name, "Read More", a marker and two lyric lines
DecoyStreams ==
    {<<lang, "Read More", "[Verse 1]", one, two>> :
        lang \in LanguageNames, one \in LyricLines, two \in LyricLines}

\* after a marker, an artifact between blank lines and an artifact at the
\* end of a lyric line
ArtifactStreams ==
    {<<"[Verse 1]", "", "You might also like", "", "Some lyric line">>,
     <<"[Verse 1]", "la You might also like", "la la">>}

\* the line streams given to _format_lyrics
LineStreams ==
    UNION {[1..n -> TextLines] : n \in 0..MaxLines} \cup DecoyStreams \cup ArtifactStreams

InitFormat ==
    /\ ClientIdle
    /\ MetaIdle
    /\ RouteIdle
    /\ StoryIdle
    /\ f_pc = "split"
    /\ f_text \in {Join(stream, "\n") : stream \in LineStreams}
    /\ f_lines = <<>>
    /\ f_filter = FilterStart
    /\ cleaned_lyrics = None

\* lines 422-424
FormatSplit ==
    /\ f_pc = "split"
    /\ f_lines' = Split(f_text, "\n")
    /\ f_filter' = FilterStart
    /\ f_pc' = "loop"
    /\ UNCHANGED <<f_text, cleaned_lyrics, clientVars, metaVars, routeVars, storyVars>>

\* lines 426-448: one line of the loop
FormatLine ==
    /\ f_pc = "loop"
    /\ Len(f_lines) > 0
    /\ f_filter' = FilterLine(Head(f_lines), f_filter)
    /\ f_lines' = Tail(f_lines)
    /\ UNCHANGED <<f_pc, f_text, cleaned_lyrics, clientVars, metaVars, routeVars, storyVars>>

\* lines 450-470: the loop is over, the text is cleaned and returned
FormatReturn ==
    /\ f_pc = "loop"
    /\ Len(f_lines) = 0
    /\ cleaned_lyrics' = Some(CleanUp(f_filter.clean_lines))
    /\ f_pc' = "done"
    /\ UNCHANGED <<f_text, f_lines, f_filter, clientVars, metaVars, routeVars, storyVars>>

NextFormat == FormatSplit \/ FormatLine \/ FormatReturn

SpecFormat == InitFormat /\ [][NextFormat]_vars

(***************************************************************************)
(* _extract_song_metadata, run on its own                                  *)
(***************************************************************************)
\* the largest number of parts of a display date
MaxDateParts == 3

\* the parts of the display dates
DateParts == {"1965", "2031", "20", "5", "1", " ", "a", "_"}

RECURSIVE Concat(_)
Concat(parts) == IF Len(parts) = 0 THEN "" ELSE Head(parts) \o Concat(Tail(parts))

\* release_date_for_display: missing, or a string
DisplayDates ==
    {None} \cup {Some(Concat(parts)) :
                    parts \in UNION {[1..n -> DateParts] : n \in 0..MaxDateParts}}

\* the tags of the payloads
TagLists ==
    {<<>>,
     <<None, Some("")>>,
     <<Some("Pop")>>,
     <<Some("Pop"), None, Some("Rock")>>,
     <<Some("Pop"), Some("Rock"), Some("UK"), Some("Folk")>>,
     <<Some("Pop"), None, Some("Rock"), Some("UK"), Some("Folk")>>}

InitMeta ==
    /\ ClientIdle
    /\ FormatIdle
    /\ RouteIdle
    /\ StoryIdle
    /\ m_pc = "call"
    /\ \E date \in DisplayDates, tags \in TagLists :
          m_details = Some([PayloadGood EXCEPT !.date = date, !.tags = tags])
    /\ m_metadata = None

\* _extract_song_metadata, lines 131-154
ExtractMetadata ==
    /\ m_pc = "call"
    /\ m_metadata' = Some(ExtractSongMetadata(Val(m_details)))
    /\ m_pc' = "done"
    /\ UNCHANGED <<m_details, clientVars, formatVars, routeVars, storyVars>>

NextMeta == ExtractMetadata

SpecMeta == InitMeta /\ [][NextMeta]_vars

(***************************************************************************)
(* The claims about get_song_lyrics_with_annotations, get_song_annotations *)
(* and _scrape_lyrics, under Spec                                          *)
(***************************************************************************)
\* a request of the kind was sent
Sent(kind) == \E i \in 1..Len(reqs) : reqs[i].kind = kind

\* C1: in get_song_lyrics_with_annotations, when the metadata fetch gave no
\* result, no request for annotations and none for the lyrics page is made or
\* sent, and the operation has returned None.
C1_NoMetadataNoFetch ==
    (op = "song" /\ pc # "details" /\ IsNone(song_details))
        => /\ pc = "done"
           /\ result.kind = "none"
           /\ cur.kind \notin {"referents", "lyrics"}
           /\ ~Sent("referents")
           /\ ~Sent("lyrics")

\* the metadata fetch failed, and the operation is over
C1_Witness ==
    /\ op = "song"
    /\ pc = "done"
    /\ IsNone(song_details)
    /\ result.kind = "none"
    /\ Len(reqs) = 1

\* the payload of the song holds a title and an artist that are not empty
HasTitleAndArtist ==
    /\ ~IsNone(song_details)
    /\ GetOr(Val(song_details).title, "") # ""
    /\ GetOr(Val(song_details).artist, "") # ""

\* the annotation fetch failed or returned nothing: page 1 failed or was empty
AnnotationFetchEmpty == Len(resps) > 0 /\ (~resps[1].ok \/ resps[1].count = 0)

\* the page that was fetched holds no container, or only blank ones
NoLyricsOnPage ==
    /\ ~IsNone(html_content)
    /\ \A i \in 1..Len(LyricsContainers(Val(html_content))) :
          Strip(LyricsContainers(Val(html_content))[i]) = ""

\* the lyrics scrape failed: the request failed, the page holds no lyrics, or
\* nothing remains of them
ScrapeFailed ==
    /\ Sent("lyrics")
    /\ pc = "done"
    /\ (IsNone(html_content) \/ NoLyricsOnPage \/ lyrics = Some(""))

\* C2: every run of get_song_lyrics_with_annotations whose metadata fetch gave
\* a title and an artist that are not empty returns a Song, with title and
\* artist not empty, with no annotations when the annotation fetch failed or
\* returned nothing, and with lyrics None when the scrape failed.
C2_Claim ==
    (op = "song" /\ pc = "done" /\ HasTitleAndArtist)
        => /\ result.kind = "song"
           /\ Val(result.song.title) # ""
           /\ Val(result.song.artist) # ""
           /\ (AnnotationFetchEmpty => result.song.annotations = <<>>)
           /\ (ScrapeFailed => IsNone(result.song.lyrics))

\* C3: get_song_lyrics_with_annotations never ends in an exception, it returns
\* a Song or None.
C3_Claim == op = "song" => result.kind \in {"pending", "song", "none"}

\* get_song_annotations has returned its list (to its caller, or within
\* get_song_lyrics_with_annotations)
AnnotationsReturned ==
    \/ op = "annotations" /\ pc = "done"
    \/ op = "song" /\ pc \in {"lyrics", "done"} /\ ~IsNone(song_details)

RECURSIVE EntryCount(_)
\* the number of annotation entries of the referents
EntryCount(referents) ==
    IF Len(referents) = 0 THEN 0
    ELSE Len(Head(referents).annotations) + EntryCount(Tail(referents))

\* the identifiers of the annotation entries of the referents of two pages:
\* page order, then referent order, then annotation order
EntryIds(first, second) ==
    LET all == first \o second
        at(r, k) == <<all[r].annotations[k].id>>
        RECURSIVE ofRef(_, _)
        ofRef(r, k) ==
            IF k > Len(all[r].annotations) THEN <<>> ELSE at(r, k) \o ofRef(r, k + 1)
        RECURSIVE from(_)
        from(r) == IF r > Len(all) THEN <<>> ELSE ofRef(r, 1) \o from(r + 1)
    IN  from(1)

\* every request for a page was answered, and no answer reports a last page
\* below the number of pages the API holds
ApiAnswersAll ==
    \A i \in 1..Len(resps) :
        /\ resps[i].ok
        /\ (IsNone(resps[i].last_page) \/ Val(resps[i].last_page) >= Len(api_pages))

\* C4: against an API that holds two pages of referents that are not empty and
\* an empty page 3, get_song_annotations returns as many records as the two
\* pages hold annotation entries, in page order, then referent order, then
\* annotation order.
C4_Claim ==
    (AnnotationsReturned /\ Len(api_pages) = 2 /\ ApiAnswersAll)
        => /\ Len(all_annotations) = EntryCount(api_pages[1]) + EntryCount(api_pages[2])
           /\ [i \in 1..Len(all_annotations) |-> all_annotations[i].id]
                  = EntryIds(api_pages[1], api_pages[2])

\* C5: after the answer to page N that was not empty, get_song_annotations
\* requests page N + 1 unless the answer reported a last page below N + 1; an
\* answer that reports no last page does not stop the loop.
C5_Claim ==
    \A n \in 1..Len(resps) :
        (/\ resps[n].ok
         /\ resps[n].count > 0
         /\ (IsNone(resps[n].last_page) \/ Val(resps[n].last_page) >= n + 1))
            => \/ Len(resps) > n
               \/ pc = "referents" /\ page = n + 1

\* C6: _scrape_lyrics returns None, and never an empty string, when the
\* request fails, when the page holds no container or only empty ones, and
\* when nothing remains after _format_lyrics.
C6_Claim ==
    (op = "song" /\ pc = "done" /\ Sent("lyrics"))
        => /\ lyrics # Some("")
           /\ ((IsNone(html_content) \/ NoLyricsOnPage) => IsNone(lyrics))

(***************************************************************************)
(* The claims about _format_lyrics, under SpecFormat                       *)
(***************************************************************************)
\* C7: of a stream made of a line that is a language name, a "Read More"
\* line, the marker "[Verse 1]" and two lyric lines, in this order,
\* _format_lyrics returns the marker and the two lyric lines, in their order,
\* and neither of the two lines before the marker.
C7_DecoysDropped ==
    \A lang \in LanguageNames, one \in LyricLines, two \in LyricLines :
        (f_pc = "done" /\ f_text = Join(<<lang, "Read More", "[Verse 1]", one, two>>, "\n"))
            => cleaned_lyrics = Some(Join(<<"[Verse 1]", one, two>>, "\n"))

C7_Witness ==
    /\ f_pc = "done"
    /\ f_text = "Deutsch\nRead More\n[Verse 1]\nSome lyric line\nla la"
    /\ cleaned_lyrics = Some("[Verse 1]\nSome lyric line\nla la")

\* lines of the form "<title> Lyrics" of at most 3 tokens
TitleLines == {"Yesterday Lyrics", "Hey Jude Lyrics"}

\* C8: a line "<title> Lyrics" of at most 3 tokens is dropped by the filter
\* before the capture of lyrics has started and after it has: it is never
\* among the lines kept, and it is no line of the text returned.
C8_TitleRepeatDropped ==
    /\ \A i \in 1..Len(f_filter.clean_lines) : f_filter.clean_lines[i] \notin TitleLines
    /\ f_pc = "done" =>
          \A i \in 1..Len(Split(Val(cleaned_lyrics), "\n")) :
              Split(Val(cleaned_lyrics), "\n")[i] \notin TitleLines

\* the title line stood after a marker and a lyric line
C8_Witness ==
    /\ f_pc = "done"
    /\ f_text = "[Verse 1]\nSome lyric line\nYesterday Lyrics"
    /\ cleaned_lyrics = Some("[Verse 1]\nSome lyric line")

\* the words of a metadata line: lines 436 and 229
MetadataMarkers == {"Contributors", "Translations", "Read More"} \cup LanguageNames

\* The text is clean, in the words of the claim: its first line holds a
\* structural marker, no line holds a metadata marker or repeats the title, no
\* artifact pattern matches, no two blanks stand side by side and no two blank
\* lines follow each other.
CleanAsClaimed(text) ==
    LET lines == Split(text, "\n") IN
    /\ \E m \in StructuralMarkers : Contains(lines[1], m)
    /\ \A i \in 1..Len(lines) :
          /\ ~\E w \in MetadataMarkers : Contains(lines[i], w)
          /\ ~(EndsWith(lines[i], " Lyrics") /\ TokenCount(lines[i]) <= TitleMaxTokens)
    /\ \A k \in 1..NumArtifacts, i \in 1..Len(text) :
          ArtifactMatch(k, From(text, i), Lower(From(text, i))) = 0
    /\ \A i \in 1..(Len(text) - 1) : ~(IsBlank(Ch(text, i)) /\ IsBlank(Ch(text, i + 1)))
    /\ ~Contains(text, "\n\n\n")

\* no tab in the text, and no line that begins or ends with white space
NoStrayBlanks(text) ==
    /\ ~Contains(text, "\t")
    /\ \A i \in 1..Len(Split(text, "\n")) :
          Strip(Split(text, "\n")[i]) = Split(text, "\n")[i]

\* C9, as claimed: _format_lyrics returns a clean text as it is, up to the
\* white space at its end.
C9_Claim ==
    (f_pc = "done" /\ CleanAsClaimed(f_text)) => Val(cleaned_lyrics) = RStrip(f_text)

\* C9, amended: _format_lyrics returns a clean text that holds no tab and no
\* line beginning or ending with white space as it is, up to the white space
\* at its end.
C9_CleanUnchanged ==
    (f_pc = "done" /\ CleanAsClaimed(f_text) /\ NoStrayBlanks(f_text))
        => Val(cleaned_lyrics) = RStrip(f_text)

\* a clean text with a blank line between its lines
C9_Witness ==
    /\ f_pc = "done"
    /\ f_text = "[Verse 1]\n\nSome lyric line"
    /\ CleanAsClaimed(f_text)
    /\ NoStrayBlanks(f_text)
    /\ cleaned_lyrics = Some(f_text)

(***************************************************************************)
(* The claims about _extract_song_metadata, under SpecMeta                 *)
(***************************************************************************)
\* the display date given and the year returned
GivenDate == Val(m_details).date
ReturnedYear == Val(m_metadata).release_year

\* the value of the four digits of s from position i
FourDigits(s, i) ==
    1000 * DigitVal(Ch(s, i)) + 100 * DigitVal(Ch(s, i + 1))
        + 10 * DigitVal(Ch(s, i + 2)) + DigitVal(Ch(s, i + 3))

\* the positions of the substrings of 4 digits that begin with "19" or "20"
YearSubstrings(s) ==
    {i \in 1..(Len(s) - 3) :
        /\ SubSeq(s, i, i + 1) \in {"19", "20"}
        /\ IsDigit(Ch(s, i + 2))
        /\ IsDigit(Ch(s, i + 3))}

\* those that stand alone: neither after nor before a letter, a digit or "_"
YearTokens(s) ==
    {i \in YearSubstrings(s) :
        /\ (i = 1 \/ ~IsWord(Ch(s, i - 1)))
        /\ (i + 3 = Len(s) \/ ~IsWord(Ch(s, i + 4)))}

\* C10, as claimed: release_year is the value of the first substring of 4
\* digits that begins with "19" or "20", and None when the display date holds
\* none or is missing.
C10_Claim ==
    m_pc = "done" =>
        IF IsNone(GivenDate) \/ YearSubstrings(Val(GivenDate)) = {}
        THEN IsNone(ReturnedYear)
        ELSE ReturnedYear = Some(FourDigits(Val(GivenDate), Min(YearSubstrings(Val(GivenDate)))))

\* C10, amended: release_year is the value of the first substring of 4 digits
\* that begins with "19" or "20" and stands neither after nor before a letter,
\* a digit or an underscore, and None when the display date holds none or is
\* missing.
C10_FirstYearToken ==
    m_pc = "done" =>
        IF IsNone(GivenDate) \/ YearTokens(Val(GivenDate)) = {}
        THEN IsNone(ReturnedYear)
        ELSE ReturnedYear = Some(FourDigits(Val(GivenDate), Min(YearTokens(Val(GivenDate)))))

\* a display date with two years
C10_Witness ==
    /\ m_pc = "done"
    /\ GivenDate = Some("1965 2031")
    /\ ReturnedYear = Some(1965)

\* the tags given and the genre returned
GivenTags == Val(m_details).tags
ReturnedGenre == Val(m_metadata).genre

\* the name of a tag, "" when it has none (line 150: tag.get("name", ""))
NameOf(tag) == IF IsNone(tag) THEN "" ELSE Val(tag)

\* the names of the tags at the first n of the positions in P, in their order
RECURSIVE FirstNames(_, _, _)
FirstNames(tags, P, n) ==
    IF n = 0 \/ P = {} THEN <<>>
    ELSE <<NameOf(tags[Min(P)])>> \o FirstNames(tags, P \ {Min(P)}, n - 1)

\* C11, as claimed: genre is the names of the first 3 tags of the list, or of
\* all when the list holds 3 or fewer, joined with ", ", and None for an empty
\* list.
C11_Claim ==
    m_pc = "done" =>
        IF Len(GivenTags) = 0 THEN IsNone(ReturnedGenre)
        ELSE ReturnedGenre
                = Some(Join(FirstNames(GivenTags, 1..Len(GivenTags), GenreMaxTags), ", "))

\* the positions of the tags that have a name that is not empty
Named(tags) == {i \in 1..Len(tags) : NameOf(tags[i]) # ""}

\* C11, amended: genre is the names of the first 3 tags that have a name that
\* is not empty, or of all such tags when there are 3 or fewer, in the order of
\* the list and joined with ", ", and None when no tag has such a name.
C11_FirstNamedTags ==
    m_pc = "done" =>
        IF Named(GivenTags) = {} THEN IsNone(ReturnedGenre)
        ELSE ReturnedGenre
                = Some(Join(FirstNames(GivenTags, Named(GivenTags), GenreMaxTags), ", "))

\* five tags, the second without a name
C11_Witness ==
    /\ m_pc = "done"
    /\ Len(GivenTags) = 5
    /\ IsNone(GivenTags[2])
    /\ ReturnedGenre = Some("Pop, Rock, UK")

(***************************************************************************)
(* The claims about the requests of the client, under Spec                 *)
(***************************************************************************)
\* the place of a request in a run: the search, the metadata, the
\* annotations, the lyrics page
Rank(kind) ==
    IF kind = "search" THEN 0
    ELSE IF kind = "song" THEN 1
    ELSE IF kind = "referents" THEN 2
    ELSE 3

\* the number of requests of the kind that were sent
SentCount(kind) == Cardinality({i \in 1..Len(reqs) : reqs[i].kind = kind})

\* the number of requests of the kind that were answered
AnsweredCount(kind) == Cardinality({i \in 1..Len(answers) : answers[i].req.kind = kind})

C13_NoRetry ==
    /\ \A i \in 1..Len(reqs), j \in 1..Len(reqs) : i # j => reqs[i] # reqs[j]
    /\ net = "sleeping" => \A i \in 1..Len(reqs) : reqs[i] # cur
    /\ \A k \in 1..Len(answers) :
          ~answers[k].ok =>
              /\ Cardinality({i \in 1..Len(reqs) : reqs[i] = answers[k].req}) = 1
              /\ (cur = answers[k].req => k = Len(answers) /\ net = "inflight")

\* the request of page 2 of the annotations failed, and the run went on to its end
C13_Witness ==
    /\ op = "song"
    /\ pc = "done"
    /\ \E k \in 1..Len(answers) :
          /\ ~answers[k].ok
          /\ answers[k].req = [kind |-> "referents", page |-> 2]
    /\ Sent("lyrics")

\* the k-th of the positions P, in increasing order
Nth(P, k) == CHOOSE i \in P : Cardinality({j \in P : j < i}) = k - 1

\* C14: the annotations of the Song are the records fetched that have a body
\* that is not empty, in the order of the fetch, each as "<fragment>: <body>";
\* the list is no longer than the list fetched.
C14_AnnotationsFormat ==
    (op = "song" /\ pc = "done" /\ result.kind = "song") =>
        LET kept == {i \in 1..Len(all_annotations) : all_annotations[i].body # ""}
            anns == result.song.annotations
        IN  /\ Len(anns) = Cardinality(kept)
            /\ Len(anns) <= Len(all_annotations)
            /\ \A k \in 1..Len(anns) :
                  anns[k] = all_annotations[Nth(kept, k)].fragment \o ": "
                                \o all_annotations[Nth(kept, k)].body

\* three records were fetched, the second without a body
C14_Witness ==
    /\ op = "song"
    /\ pc = "done"
    /\ result.kind = "song"
    /\ Len(all_annotations) = 3
    /\ all_annotations[2].body = ""
    /\ result.song.annotations = <<"f1: b1", "f2: b1">>

\* C15: search_song returns at most limit results, the configured default when
\* no limit is given, whatever the number of hits of the response, and the
\* empty list when the request failed.
C15_Claim ==
    (op = "search" /\ pc = "done") =>
        /\ Len(result.list) <= limit
        /\ (~answers[Len(answers)].ok => result.list = <<>>)

\* C18: at most one request is in flight; a request is sent only after its
\* delay; the delay of a request starts only when every request sent before
\* was answered, with success or not.
C18_OneAtATime ==
    [][/\ Len(reqs') - Len(answers') = (IF net' = "inflight" THEN 1 ELSE 0)
       /\ (net' = "inflight" /\ (net # "inflight" \/ cur' # cur))
             => (net = "sleeping" /\ cur' = cur)
       /\ (cur' # cur /\ cur' # NoRequest)
             => (net' = "sleeping" /\ net # "sleeping" /\ Len(answers') = Len(reqs'))]_vars

\* the request of the annotations failed, and the request of the lyrics page
\* is in its delay
C18_Witness ==
    /\ net = "sleeping"
    /\ cur.kind = "lyrics"
    /\ Len(answers) = 2
    /\ ~answers[2].ok

(***************************************************************************)
(* The claims about the routes, under SpecRoutes                           *)
(***************************************************************************)
\* the song was not found: the search gave no result, or a first result
\* without an id, or the assembly returned no song
SongNotFound ==
    \/ op = "search" /\ pc = "done"
           /\ (Len(result.list) = 0 \/ IsNone(result.list[1].id))
    \/ op = "song" /\ pc = "done" /\ result.kind = "none"

\* C16: POST /generate answers 404 when the song was not found, and 500 only
\* when the generation failed for another reason.
C16_Claim ==
    (route = "generate" /\ status # 0) =>
        /\ SongNotFound => status = 404
        /\ status = 500 => ~SongNotFound

\* the first request of the run, the search or the metadata, failed
ServiceFailed == Len(answers) > 0 /\ ~answers[1].ok

\* the first request was answered, and the answer holds no hit, or no song
NoResult ==
    /\ Len(answers) > 0
    /\ answers[1].ok
    /\ \/ op = "search" /\ pc = "done" /\ Len(result.list) = 0
       \/ op = "song" /\ pc = "done" /\ result.kind = "none"

\* C17: POST /search and GET /{song_id} answer 404 when the query or the song
\* id yields no result, and 500 when the search or the retrieval failed for a
\* network error, a timeout or an answer of the upstream API that is not 2xx.
C17_Claim ==
    (route \in {"search", "details"} /\ status # 0) =>
        /\ NoResult => status = 404
        /\ ServiceFailed => status = 500

(***************************************************************************)
(* The claims about the line filter of _format_lyrics, under SpecFormat    *)
(***************************************************************************)
\* the line holds a structural marker
Marked(line) == \E m \in StructuralMarkers : Contains(line, m)

\* the line repeats the title
TitleRepeat(line) == EndsWith(line, " Lyrics") /\ TokenCount(line) <= TitleMaxTokens

\* the line holds one of the words
Holds(line, words) == \E w \in words : Contains(line, w)

\* the loop reads a line
ReadsLine == f_pc = "loop" /\ Len(f_lines) > 0

\* The filter as a machine of two states, step by step.  It starts searching
\* with nothing emitted.  When it reads a line: it never leaves capturing; from
\* searching it moves to capturing exactly when starts holds of the line; it
\* emits the line as emitted gives it, or nothing; it emits nothing while it
\* stays searching, and it emits the line that starts the capture and every
\* later line that is not boilerplate.
TwoStates(starts(_), emitted(_), boilerplate(_)) ==
    /\ f_pc = "split" => (~f_filter'.lyrics_started /\ f_filter'.clean_lines = <<>>)
    /\ ReadsLine =>
          LET raw == Head(f_lines)
              old == f_filter
              new == f_filter'
          IN  /\ old.lyrics_started => new.lyrics_started
              /\ ~old.lyrics_started => (new.lyrics_started = starts(raw))
              /\ new.clean_lines \in {old.clean_lines, Append(old.clean_lines, emitted(raw))}
              /\ ~new.lyrics_started => new.clean_lines = <<>>
              /\ (new.lyrics_started /\ (~old.lyrics_started \/ ~boilerplate(raw)))
                    => new.clean_lines = Append(old.clean_lines, emitted(raw))

\* C19, as claimed: the filter starts in searching, moves to capturing on the
\* first line that holds a structural marker and never moves back; no line
\* read while searching is emitted, the marker line is, and so is every later
\* line that is not boilerplate; the lines emitted are a subsequence of the
\* lines given.
C19_Claim ==
    [][TwoStates(LAMBDA raw : Marked(raw),
                 LAMBDA raw : raw,
                 LAMBDA raw : Holds(raw, MetadataMarkers) \/ TitleRepeat(raw))]_vars

\* C19, amended: the filter moves to capturing on the first line that holds a
\* structural marker and is neither a metadata line of line 436 nor a repeat
\* of the title; the lines emitted are a subsequence of the lines given, each
\* without the white space at its ends.
C19_TwoStateFilter ==
    [][TwoStates(LAMBDA raw : /\ Marked(raw)
                              /\ ~Holds(raw, MetadataWords)
                              /\ ~TitleRepeat(Strip(raw)),
                 LAMBDA raw : Strip(raw),
                 LAMBDA raw : Holds(raw, MetadataWords) \/ TitleRepeat(Strip(raw)))]_vars

\* a metadata line with a marker, then a marker, then a line that starts with
\* a blank
C19_Witness ==
    /\ f_pc = "done"
    /\ f_text = "[Intro] Read More\n[Verse 1]\n la"
    /\ f_filter = [lyrics_started |-> TRUE, clean_lines |-> <<"[Verse 1]", "la">>]

\* A line that holds one of the words leaves the filter as it is: it is not
\* emitted, and it does not start the capture.
MetadataLinesDropped(words) ==
    (ReadsLine /\ Holds(Head(f_lines), words)) => f_filter' = f_filter

\* C20, as claimed: a line that holds "Contributors", "Translations", "Read
\* More" or a language name of the list of _scrape_lyrics is dropped before
\* and after the lyrics have started, and never starts them.
C20_Claim == [][MetadataLinesDropped(MetadataMarkers)]_vars

\* C20, amended: a line that holds "Contributors", "Translations", "Read
\* More", "Nederlands", "Türkçe" or "Español" is dropped before and after the
\* lyrics have started, and never starts them.
C20_MetadataDropped == [][MetadataLinesDropped(MetadataWords)]_vars

\* a metadata line after the marker, and one that holds a marker before it
C20_Witness ==
    /\ f_pc = "done"
    /\ f_text = "[Intro] Read More\n[Verse 1]\nRead More"
    /\ cleaned_lyrics = Some("[Verse 1]")

(***************************************************************************)
(* The claims about the containers of _scrape_lyrics, under Spec           *)
(***************************************************************************)
\* the four selectors of a page, in the order in which they are tried
Strategies(html) == <<html.attr, html.cls, html.generic, html.byid>>

\* the selectors of a page that find a container
Yielding(html) == {k \in 1..4 : Len(Strategies(html)[k]) > 0}

\* the containers of the first selector that finds any, without the blank ones
UsedTexts(html) ==
    IF Yielding(html) = {} THEN <<>>
    ELSE LET first == CHOOSE k \in Yielding(html) : \A j \in Yielding(html) : k <= j
         IN  SelectSeq(Strategies(html)[first], LAMBDA text : Strip(text) # "")

\* C21: _scrape_lyrics takes the containers of the first of its four
\* selectors, in their order, that finds any, and of no later one; it drops
\* the containers whose text is empty, and the lyrics are those of the
\* containers that remain, or None when there is none.
C21_FallbackChain ==
    (op = "song" /\ pc = "done" /\ ~IsNone(html_content))
        => LET used == UsedTexts(Val(html_content))
           IN  lyrics = IF Len(used) = 0 THEN None
                        ELSE Some(FormatLyrics(Join(used, "\n")))

\* two selectors find containers on the page that was fetched, and the
\* lyrics returned are those of the containers of the first
C21_Witness ==
    /\ op = "song"
    /\ pc = "done"
    /\ ~IsNone(html_content)
    /\ Cardinality(Yielding(Val(html_content))) = 2
    /\ Len(UsedTexts(Val(html_content))) = 2
    /\ lyrics = Some("[Chorus]\nla")

(***************************************************************************)
(* The claims about the loop of get_song_annotations, under SpecLive       *)
(***************************************************************************)
\* the requests of referent pages that were sent, in order
PageRequests == SelectSeq(reqs, LAMBDA r : r.kind = "referents")

\* the largest last page that an answer has reported, 1 when none has
ReportedLastPage ==
    Max({1} \cup {Val(resps[i].last_page) :
                     i \in {j \in 1..Len(resps) : ~IsNone(resps[j].last_page)}})

\* the pages are requested in ascending order from 1, their number stays
\* within the larger of 1 and the largest last page reported, and the answer
\* that fails or holds no referent is the last one
C22_Bounded ==
    /\ \A i \in 1..Len(PageRequests) : PageRequests[i].page = i
    /\ Len(PageRequests) <= ReportedLastPage
    /\ \A i \in 1..Len(resps) :
          (~resps[i].ok \/ resps[i].count = 0)
              => /\ i = Len(resps)
                 /\ pc # "referents"
                 /\ cur.kind # "referents"

\* an answer to page N that holds referents and reports a last page beyond N
\* is followed by the request of page N + 1: nothing else ends the loop
C22_Continues ==
    (/\ pc = "referents"
     /\ net = "inflight"
     /\ Len(resps') = Len(resps) + 1
     /\ resps'[Len(resps')].ok
     /\ resps'[Len(resps')].count > 0
     /\ ~IsNone(resps'[Len(resps')].last_page)
     /\ Val(resps'[Len(resps')].last_page) > page)
        => /\ pc' = "referents"
           /\ net' = "sleeping"
           /\ cur' = [kind |-> "referents", page |-> page + 1]

RECURSIVE RecordsOfPages(_)
\* the records of the first n pages that the API holds, in page order
RecordsOfPages(n) ==
    IF n = 0 THEN <<>> ELSE RecordsOfPages(n - 1) \o PageRecords(ApiReferents(n))

\* C23: when the request of page N fails, get_song_annotations returns,
\* without raising and without a further request, the records of the pages 1
\* to N - 1 in order, the empty list when N = 1; a song whose first page is
\* empty gives the empty list too.
C23_PartialOnFailure ==
    (op = "annotations" /\ pc = "done")
        => LET n == Len(resps) IN
           /\ ~resps[n].ok
                 => /\ result = [kind |-> "annotations", list |-> RecordsOfPages(n - 1)]
                    /\ Len(PageRequests) = n
                    /\ Len(reqs) = n
           /\ (n = 1 /\ (~resps[1].ok \/ resps[1].count = 0))
                 => result = [kind |-> "annotations", list |-> <<>>]

\* the request of page 2 has failed and get_song_annotations has returned the
\* records of page 1
C23_Witness ==
    /\ op = "annotations"
    /\ pc = "done"
    /\ Len(resps) = 2
    /\ ~resps[2].ok
    /\ result.kind = "annotations"
    /\ Len(result.list) > 0

\* the pages that get_song_annotations has fetched: those answered with referents
FetchedPages == {k \in 1..Len(resps) : resps[k].ok /\ resps[k].count > 0}

\* the places of the annotation entries of the pages fetched: page, referent
\* and entry
EntryPlaces ==
    UNION {UNION {{<<k, r, e>> : e \in 1..Len(api_pages[k][r].annotations)} :
                     r \in 1..Len(api_pages[k])} :
              k \in FetchedPages}

\* a place stands before another: page order, then referent order, then entry order
Before(a, b) ==
    \/ a[1] < b[1]
    \/ a[1] = b[1] /\ a[2] < b[2]
    \/ a[1] = b[1] /\ a[2] = b[2] /\ a[3] < b[3]

\* the place of the record at position i of the list
PlaceOf(i) ==
    CHOOSE a \in EntryPlaces : Cardinality({b \in EntryPlaces : Before(b, a)}) = i - 1

\* C24: the list that get_song_annotations returns holds one record for each
\* annotation entry of each referent of each page fetched, with the id of the
\* entry and the fragment of its referent; a referent without entries gives
\* none, and an entry that stands under two referents gives two records.
C24_FlattenNoDedup ==
    (op = "annotations" /\ pc = "done")
        => /\ Len(result.list) = Cardinality(EntryPlaces)
           /\ \A i \in 1..Len(result.list) :
                 LET a == PlaceOf(i)
                     referent == api_pages[a[1]][a[2]]
                 IN  /\ result.list[i].id = referent.annotations[a[3]].id
                     /\ Some(result.list[i].fragment) = referent.fragment

\* the list returned holds two records of the same annotation, with the
\* fragments of two referents
C24_Witness ==
    /\ op = "annotations"
    /\ pc = "done"
    /\ \E i, j \in 1..Len(result.list) :
          /\ result.list[i].id = result.list[j].id
          /\ result.list[i].fragment # result.list[j].fragment
    /\ \E k \in FetchedPages : \E r \in 1..Len(api_pages[k]) :
          Len(api_pages[k][r].annotations) = 0

(***************************************************************************)
(* The claims about the year of the metadata and the Song, under Spec      *)
(***************************************************************************)
\* the years that the pattern of line 140 can match
ExtractedYears == 1900..2099

\* C25: the release_year that _extract_song_metadata gives is None or a year
\* from 1900 to 2099, it lies within the range of the field release_year of
\* Song, and the Song is built with it (a payload with a title and an artist
\* gives a Song).
C25_Claim ==
    (op = "song" /\ ~IsNone(metadata))
        => LET year == Val(metadata).release_year IN
           /\ IsNone(year) \/ Val(year) \in ExtractedYears
           /\ IsNone(year) \/ (Val(year) >= MinYear /\ Val(year) <= MaxYear)
           /\ (pc = "done" /\ HasTitleAndArtist) => result.kind = "song"

(***************************************************************************)
(* The claims about the white space of the text returned, under SpecFormat *)
(***************************************************************************)
\* C26: the text that _format_lyrics returns holds no three newlines in a
\* row, no white space at its start or its end, and no line that begins or
\* ends with a space.
C26_Claim ==
    f_pc = "done"
        => LET text == Val(cleaned_lyrics) IN
           /\ ~Contains(text, "\n\n\n")
           /\ Strip(text) = text
           /\ ~Contains(text, "\n ")
           /\ ~Contains(text, " \n")

(***************************************************************************)
(* The claims about analyze_lyrics and generate_story_from_song, under     *)
(* SpecStory                                                               *)
(***************************************************************************)
\* the calls of a chain that were made
CallsOf(chain) == SelectSeq(llm_calls, LAMBDA call : call.chain = chain)

\* C27: analyze_lyrics gives the summary chain the first 1500 characters of
\* the lyrics at most; without lyrics (None, empty or blank) it calls no
\* chain and returns its placeholder; and it never raises: when the summary
\* chain has answered or failed, a string was returned and the story chain
\* was called with it.
C27_AnalysisBounded ==
    story_pc # "idle"
        => LET song == Val(story_song)
               given == CallsOf("summary")
           IN  /\ Len(given) <= 1
               /\ NoLyrics(song.lyrics)
                     => /\ Len(given) = 0
                        /\ lyrics_summary = NoLyricsSummary
               /\ \A i \in 1..Len(given) :
                     LET text == given[i].input.lyrics IN
                     /\ ~NoLyrics(song.lyrics)
                     /\ Len(text) <= LyricsLimit
                     /\ text = SubSeq(Val(song.lyrics), 1, Len(text))
                     /\ Len(text) = LyricsLimit \/ Len(text) = Len(Val(song.lyrics))
               /\ story_pc = "summary" => story_result = Pending
               /\ story_pc \in {"story", "done"}
                     => /\ Len(CallsOf("story")) = 1
                        /\ CallsOf("story")[1].input.lyrics_summary = lyrics_summary
                        /\ lyrics_summary # ""

\* the lyrics are longer than 1500 characters, the summary chain was given
\* 1500 of them and has failed, and the story was generated
C27_Witness ==
    /\ story_pc = "done"
    /\ ~NoLyrics(Val(story_song).lyrics)
    /\ Len(Val(Val(story_song).lyrics)) > LyricsLimit
    /\ Len(CallsOf("summary")[1].input.lyrics) = LyricsLimit
    /\ lyrics_summary = "Unable to analyze lyrics: timeout"
    /\ story_result.kind = "story"

\* C28: the text of the song in the input of the story chain is bounded, by
\* a bound that the number and the length of the annotations do not move:
\* the annotations given are no longer than the lyrics given to the summary
\* chain may be, whatever the annotations of the song.
C28_Claim ==
    \A i \in 1..Len(CallsOf("story")) :
        Len(CallsOf("story")[i].input.annotations) <= LyricsLimit

(***************************************************************************)
(* The claims about generate_story_from_song_name, under SpecRoutes        *)
(***************************************************************************)
\* the summary chain was called and failed
AnalysisFailed == StartsAt(lyrics_summary, "Unable to analyze lyrics: ", 1)

\* the steps so far: the search request came first and was answered, the
\* song was assembled, a chain is called only with the song, the summary
\* chain before the story chain, and the story chain after every analysis
StepsInOrder ==
    /\ \A i \in 1..Len(reqs) : Rank(reqs[i].kind) = 0 <=> i = 1
    /\ (story_pc # "idle" \/ Len(llm_calls) > 0)
          => /\ answers[1].ok
             /\ op = "song"
             /\ pc = "done"
             /\ result.kind = "song"
             /\ story_song = Some(result.song)
    /\ \A i \in 1..Len(llm_calls) :
          llm_calls[i].chain = "story" => i = Len(llm_calls)
    /\ story_pc \in {"story", "done"} => Len(CallsOf("story")) = 1

\* the search, the assembly or the story generation has failed
StepFailed ==
    \/ SongNotFound
    \/ op = "song" /\ pc = "done" /\ result.kind = "raised"
    \/ story_pc = "done" /\ story_result.kind = "raised"

\* C29, as claimed: the steps of generate_story_from_song_name run in the
\* order search, assemble, analyse, generate, and the failure of any of them,
\* the analysis of the lyrics among them, ends the operation with an
\* exception and no Story.
C29_Claim ==
    route = "generate"
        => /\ StepsInOrder
           /\ (status # 0 /\ (StepFailed \/ AnalysisFailed)) => status = 500

\* the song fetched is the song of the first result of the search
FirstResultOnly ==
    (route = "generate" /\ op = "search" /\ op' = "song")
        => /\ Len(result.list) > 0
           /\ Some(song_id') = result.list[1].id

\* C29, amended: the steps run in the order search, assemble, analyse,
\* generate, with the song of the first search result only; no chain is called
\* without a search result with an id and a song assembled; the story chain is
\* called when the analysis failed as well; a failure of the search, of the
\* assembly or of the story generation ends the operation with an exception
\* and no Story, while after a failed analysis the Story is returned whenever
\* the story chain answers.
C29_StepsInOrder ==
    /\ [](route = "generate"
            => /\ StepsInOrder
               /\ (status # 0 /\ StepFailed) => status = 500
               /\ (status # 0 /\ ~StepFailed)
                     => /\ status = 200
                        /\ story_result.kind = "story")
    /\ [][FirstResultOnly]_vars

\* the analysis of the lyrics has failed, the story chain was called with
\* the message of the failure, and the Story was returned
C29_Witness ==
    /\ route = "generate"
    /\ status = 200
    /\ AnalysisFailed
    /\ CallsOf("story")[1].input.lyrics_summary = lyrics_summary
    /\ [i \in 1..Len(reqs) |-> Rank(reqs[i].kind)] = <<0, 1, 2, 3>>

(***************************************************************************)
(* The claims about a payload without the url of the lyrics, under Spec    *)
(***************************************************************************)
\* the payload of the song holds no url, or an empty one
NoLyricsUrl == ~IsNone(song_details) /\ GetOr(Val(song_details).url, "") = ""

\* C30: when the payload holds no url of the lyrics,
\* get_song_lyrics_with_annotations requests no lyrics page and returns a
\* Song whose lyrics are None; and every Song returned has the id given.
C30_Claim ==
    op = "song"
        => /\ NoLyricsUrl
                 => /\ ~Sent("lyrics")
                    /\ cur.kind # "lyrics"
                    /\ pc = "done" => (result.kind = "song" /\ IsNone(result.song.lyrics))
           /\ result.kind = "song" => result.song.id = song_id

====
